---- MODULE Spec2Model ----
(***************************************************************************)
(* Model of the 16-colour palette conversion tool                          *)
(* (src/append/image_to_palette.py): the palette store (ColorPalette),     *)
(* the quantizer (ColorQuantizer: colour-space conversion, distance,       *)
(* nearest-colour search, plain and Floyd-Steinberg quantization with and  *)
(* without alpha) and the pixel packer (M5DataGenerator); with the        *)
(* RGB565 conversion of m5_image_converter.py, the section loops of        *)
(* image_cutter.py and the array naming of image_to_c_header.py.           *)
(*                                                                         *)
(* Numbers.  Python floats are modelled in fixed point:                    *)
(*   - Lab coordinates in hundredths (LabScale), built from a table of     *)
(*     gamma_correct(c/255) in 1e-5 units and matrix rows in 1e-4 units;   *)
(*   - HSV components in 1e-4 units (HsvScale);                            *)
(*   - the float32 working buffer of the dithering paths in units of       *)
(*     1/Scale, Scale = 16^4, which holds every value a run of at most     *)
(*     five pixels produces exactly (each diffusion divides by 16).        *)
(* math.sqrt is strictly increasing, so distances are compared by their    *)
(* squares.  Integer arithmetic on pixel channels is the arithmetic of     *)
(* Python ints.                                                            *)
(***************************************************************************)
EXTENDS Integers, Sequences, FiniteSets, TLC

VARIABLES
    pc,                 \* position of the calling program (main)
    raised,             \* exception surfaced to the caller by the last call
    name,               \* ColorPalette.name
    colors_rgb,         \* ColorPalette.colors_rgb      (0..15 -> <<r,g,b>>)
    colors_rgb565,      \* ColorPalette.colors_rgb565   (0..15 -> 0..65535)
    transparent_index,  \* ColorPalette.transparent_index
    color_space,        \* ColorQuantizer.color_space
    palette_lab,        \* ColorQuantizer.palette_lab   (absent unless "lab")
    mutations,          \* number of add_custom_color calls made
    last_call,          \* the last call made on the palette or the quantizer
    mode,               \* image.mode of the run: "RGB" or "RGBA"
    dither,             \* dither flag of the run
    width, height,      \* image.size
    image,              \* input pixel buffer     [y][x] -> <<r,g,b>>
    alpha_channel,      \* input alpha channel    [y][x] -> 0..255
    image_array,        \* float32 working buffer [y][x] -> <<r,g,b>> / Scale
    result_array,       \* index buffer           [y][x] -> 0..255
    y, x,               \* scan position of the quantization loops
    data_bytes,         \* packer output
    py, px,             \* scan position of the packer loops
    cut_positions,      \* image cutter: args.cuts
    position_mode,      \* image cutter: args.position
    image_height,       \* image cutter: img.size[1]
    unique_cuts,        \* image cutter: sorted(set(cut_positions))
    cut_i,              \* image cutter: loop index i
    start_y,            \* image cutter: start_y of the loop
    saved_files,        \* image cutter: the sections saved so far
    image_paths,        \* header converter: the files not yet processed
    image_data_list     \* header converter: the entries of the header so far

paletteVars == <<name, colors_rgb, colors_rgb565, transparent_index>>
quantizerVars == <<color_space, palette_lab>>
runVars == <<mode, dither, width, height, image, alpha_channel, image_array,
             result_array, y, x>>
packVars == <<data_bytes, py, px>>
cutterVars == <<cut_positions, position_mode, image_height, unique_cuts, cut_i,
                start_y, saved_files>>
headerVars == <<image_paths, image_data_list>>
vars == <<pc, raised, name, colors_rgb, colors_rgb565, transparent_index,
          color_space, palette_lab, mutations, last_call, mode, dither,
          width, height, image, alpha_channel, image_array, result_array,
          y, x, data_bytes, py, px, cut_positions, position_mode, image_height,
          unique_cuts, cut_i, start_y, saved_files, image_paths,
          image_data_list>>

(***************************************************************************)
(* Bounds of the model.                                                    *)
(***************************************************************************)
MaxPixels == 4          \* a run has width * height <= MaxPixels
MaxMutations == 2       \* add_custom_color calls per palette
MaxPackCells == 6       \* cells of an index buffer handed to the packer

None == "none"
Absent == <<>>

Max2(a, b) == IF a >= b THEN a ELSE b
Min2(a, b) == IF a <= b THEN a ELSE b
Max3(a, b, c) == Max2(a, Max2(b, c))
Min3(a, b, c) == Min2(a, Min2(b, c))

(***************************************************************************)
(* Python's bit operators on non-negative ints.                            *)
(***************************************************************************)
RECURSIVE BitAnd(_, _)
BitAnd(a, b) ==
    IF a = 0 \/ b = 0 THEN 0
    ELSE (IF a % 2 = 1 /\ b % 2 = 1 THEN 1 ELSE 0) + 2 * BitAnd(a \div 2, b \div 2)

RECURSIVE BitOr(_, _)
BitOr(a, b) ==
    IF a = 0 THEN b
    ELSE IF b = 0 THEN a
    ELSE (IF a % 2 = 1 \/ b % 2 = 1 THEN 1 ELSE 0) + 2 * BitOr(a \div 2, b \div 2)

RECURSIVE Shl(_, _)
Shl(a, n) == IF n = 0 THEN a ELSE Shl(2 * a, n - 1)

RECURSIVE Shr(_, _)
Shr(a, n) == IF n = 0 THEN a ELSE Shr(a \div 2, n - 1)

(***************************************************************************)
(* ColorPalette                                                            *)
(***************************************************************************)
PaletteNames == {"classic", "gameboy", "sepia", "neon"}

\* the palettes dict of _load_palette
palettes(n) ==
    CASE n = "classic" ->
           << <<0, 0, 0>>, <<255, 255, 255>>, <<248, 0, 0>>, <<0, 248, 0>>,
              <<0, 0, 248>>, <<248, 248, 0>>, <<248, 0, 248>>, <<0, 248, 248>>,
              <<132, 132, 132>>, <<252, 100, 0>>, <<128, 0, 0>>, <<0, 100, 0>>,
              <<0, 0, 128>>, <<132, 100, 0>>, <<66, 66, 66>>, <<33, 33, 33>> >>
      [] n = "gameboy" ->
           << <<0, 0, 0>>, <<155, 188, 15>>, <<139, 172, 15>>, <<123, 156, 15>>,
              <<107, 140, 15>>, <<91, 124, 15>>, <<75, 108, 15>>, <<59, 92, 15>>,
              <<43, 76, 15>>, <<27, 60, 15>>, <<15, 56, 15>>, <<0, 40, 0>>,
              <<0, 32, 0>>, <<0, 24, 0>>, <<0, 16, 0>>, <<0, 8, 0>> >>
      [] n = "sepia" ->
           << <<0, 0, 0>>, <<255, 255, 255>>, <<240, 220, 180>>, <<220, 200, 160>>,
              <<200, 180, 140>>, <<180, 160, 120>>, <<160, 140, 100>>, <<140, 120, 80>>,
              <<120, 100, 60>>, <<100, 80, 40>>, <<80, 60, 20>>, <<70, 50, 15>>,
              <<60, 40, 10>>, <<50, 30, 5>>, <<40, 20, 0>>, <<20, 10, 0>> >>
      [] n = "neon" ->
           << <<0, 0, 0>>, <<255, 255, 255>>, <<255, 0, 255>>, <<0, 255, 255>>,
              <<255, 255, 0>>, <<255, 128, 0>>, <<128, 255, 0>>, <<0, 255, 128>>,
              <<0, 128, 255>>, <<128, 0, 255>>, <<255, 0, 128>>, <<192, 192, 192>>,
              <<128, 128, 128>>, <<64, 64, 64>>, <<32, 32, 32>>, <<16, 16, 16>> >>

\* a Python list as a function on its 0-based indices
AsList(seq) == [i \in 0..(Len(seq) - 1) |-> seq[i + 1]]

\* mutant: green masked to five bits
rgb565_of_g5(c) ==
    BitOr(BitOr(Shl(BitAnd(c[1], 248), 8), Shl(BitAnd(c[2], 248), 3)), Shr(c[3], 3))

\* the value _convert_to_rgb565 appends for one colour
rgb565_of(c) ==
    BitOr(BitOr(Shl(BitAnd(c[1], 248), 8), Shl(BitAnd(c[2], 252), 3)), Shr(c[3], 3))

\* mutant: the packed list built once and never rebuilt
convert_to_rgb565_stale(rgb) ==
    IF DOMAIN colors_rgb565 = {}
    THEN [i \in DOMAIN rgb |-> rgb565_of(rgb[i])]
    ELSE colors_rgb565

\* _convert_to_rgb565: the packed list rebuilt from the whole RGB list
convert_to_rgb565(rgb) == [i \in DOMAIN rgb |-> rgb565_of(rgb[i])]

(***************************************************************************)
(* ColorQuantizer: colour-space conversion                                 *)
(***************************************************************************)
Scale == 16 * 16 * 16 * 16      \* working-buffer units per 1.0
LabScale == 10 * 10             \* Lab units per 1.0
HsvScale == 100 * 100           \* HSV units per 1.0

\* ((c/255 + 0.055) / 1.055) ** 2.4 for c = 0..255, in 1e-5 units
GammaPow ==
    << 83, 98, 115, 133, 152, 173, 196, 220, 246, 274, 303, 335,
       368, 402, 439, 478, 518, 561, 605, 651, 700, 750, 802, 857,
       913, 972, 1033, 1096, 1161, 1229, 1298, 1370, 1444, 1521, 1600, 1681,
       1764, 1850, 1938, 2029, 2122, 2217, 2315, 2416, 2519, 2624, 2732, 2843,
       2956, 3071, 3190, 3310, 3434, 3560, 3689, 3820, 3955, 4092, 4231, 4374,
       4519, 4667, 4817, 4971, 5127, 5286, 5448, 5613, 5781, 5951, 6125, 6301,
       6480, 6663, 6848, 7036, 7227, 7421, 7619, 7819, 8022, 8228, 8438, 8650,
       8866, 9084, 9306, 9531, 9759, 9990, 10224, 10462, 10702, 10946, 11193, 11444,
       11697, 11954, 12214, 12477, 12744, 13014, 13287, 13563, 13843, 14126, 14413, 14703,
       14996, 15293, 15593, 15896, 16203, 16513, 16827, 17144, 17465, 17789, 18116, 18447,
       18782, 19120, 19462, 19807, 20156, 20508, 20864, 21223, 21586, 21953, 22323, 22697,
       23074, 23455, 23840, 24228, 24620, 25016, 25415, 25818, 26225, 26636, 27050, 27468,
       27889, 28315, 28744, 29177, 29614, 30054, 30499, 30947, 31399, 31855, 32314, 32778,
       33245, 33716, 34191, 34670, 35153, 35640, 36131, 36625, 37124, 37626, 38133, 38643,
       39157, 39676, 40198, 40724, 41254, 41789, 42327, 42869, 43415, 43966, 44520, 45079,
       45641, 46208, 46778, 47353, 47932, 48515, 49102, 49693, 50289, 50888, 51492, 52100,
       52712, 53328, 53948, 54572, 55201, 55834, 56471, 57112, 57758, 58408, 59062, 59720,
       60383, 61050, 61721, 62396, 63076, 63760, 64448, 65141, 65837, 66539, 67244, 67954,
       68669, 69387, 70110, 70838, 71569, 72306, 73046, 73791, 74540, 75294, 76052, 76815,
       77582, 78354, 79130, 79910, 80695, 81485, 82279, 83077, 83880, 84687, 85499, 86316,
       87137, 87962, 88792, 89627, 90466, 91310, 92158, 93011, 93869, 94731, 95597, 96469,
       97345, 98225, 99110, 100000 >>

\* gamma_correct(c / 255.0) of _rgb_to_lab, in 1e-5 units: the power branch
\* above 0.04045, c / 12.92 at or below it
gamma_correct(c) ==
    IF c * 100000 > 4045 * 255
    THEN GammaPow[c + 1]
    ELSE (c * 10000000 + 164730) \div 329460

\* a * 100000 / d for 0 <= a < 2^31, 95047 <= d, in 32-bit steps
DivWhite(a, d) ==
    LET q == a \div d
        r == a % d
        q2 == (r * 10000) \div d
        r2 == (r * 10000) % d
    IN  q * 100000 + q2 * 10 + (r2 * 10) \div d

\* largest k in lo..hi with k^3 <= n
RECURSIVE CubeRootIn(_, _, _)
CubeRootIn(n, lo, hi) ==
    IF lo >= hi THEN lo
    ELSE LET mid == (lo + hi + 1) \div 2
         IN  IF mid * mid * mid <= n
             THEN CubeRootIn(n, mid, hi)
             ELSE CubeRootIn(n, lo, mid - 1)

\* f(t) of _rgb_to_lab: t in 1e-9 units, result in 1e-4 units;
\* t ** (1/3) above 0.008856, 7.787 * t + 16/116 at or below it
lab_f(t) ==
    IF t > 8856000
    THEN LET k == CubeRootIn(t, 0, 1290)
         IN  k * 10 + ((t - k * k * k) * 10) \div (3 * k * k + 3 * k + 1)
    ELSE ((t \div 1000) * 7787) \div 100000 + 160000 \div 116

\* _rgb_to_lab(r, g, b): <<L, a, b>> in 1/LabScale units
rgb_to_lab(r, g, b) ==
    LET lr == gamma_correct(r)
        lg == gamma_correct(g)
        lb == gamma_correct(b)
        xx == lr * 4125 + lg * 3576 + lb * 1804
        yy == lr * 2127 + lg * 7152 + lb * 722
        zz == lr * 193 + lg * 1192 + lb * 9503
        fx == lab_f(DivWhite(xx, 95047))
        fy == lab_f(yy)
        fz == lab_f(DivWhite(zz, 108883))
    IN  << (116 * fy - 160000) \div LabScale, 5 * (fx - fy), 2 * (fy - fz) >>

\* colorsys.rgb_to_hsv(r/255, g/255, b/255): <<h, s, v>> in 1/HsvScale units
rgb_to_hsv(r, g, b) ==
    LET maxc == Max3(r, g, b)
        minc == Min3(r, g, b)
        rangec == maxc - minc
        v == (maxc * HsvScale) \div 255
    IN  IF minc = maxc THEN <<0, 0, v>>
        ELSE LET s == (rangec * HsvScale) \div maxc
                 h6 == IF r = maxc THEN g - b
                       ELSE IF g = maxc THEN 2 * rangec + (b - r)
                       ELSE 4 * rangec + (r - g)
                 h == ((h6 * HsvScale) \div (6 * rangec)) % HsvScale
             IN  <<h, s, v>>

Abs(a) == IF a < 0 THEN -a ELSE a
Sq(a) == a * a

\* mutant: the hue difference without the wrap around the circle
hue_term_linear(h1, h2) == Abs(h1 - h2)

\* dh = min(abs(h1 - h2), 1 - abs(h1 - h2))
hue_term(h1, h2) == Min2(Abs(h1 - h2), HsvScale - Abs(h1 - h2))

\* the HSV branch of _color_distance (squared)
hsv_distance(color1, color2) ==
    LET c1 == rgb_to_hsv(color1[1], color1[2], color1[3])
        c2 == rgb_to_hsv(color2[1], color2[2], color2[3])
        dh == hue_term(c1[1], c2[1])
    IN  Sq(dh) + Sq(c1[2] - c2[2]) + Sq(c1[3] - c2[3])

\* _color_distance(color1, color2) under colour space cs (squared):
\* "lab" and "rgb" are Euclidean, every other value takes the HSV branch
color_distance(cs, color1, color2) ==
    IF cs = "lab"
    THEN Sq(color1[1] - color2[1]) + Sq(color1[2] - color2[2]) + Sq(color1[3] - color2[3])
    ELSE IF cs = "rgb"
    THEN Sq(color1[1] - color2[1]) + Sq(color1[2] - color2[2]) + Sq(color1[3] - color2[3])
    ELSE hsv_distance(color1, color2)

\* [distance(target, c) for c in coords[i:]] as a tuple
RECURSIVE DistancesFrom(_, _, _, _)
DistancesFrom(cs, target, coords, i) ==
    IF i \notin DOMAIN coords THEN <<>>
    ELSE <<color_distance(cs, target, coords[i])>> \o DistancesFrom(cs, target, coords, i + 1)

\* the distances list find_closest_color builds for pixel (r, g, b): in "lab"
\* against the cached palette_lab, otherwise against palette.colors_rgb
\* (position k of the tuple is list index k - 1)
distances_of(cs, rgb, labs, r, g, b) ==
    IF cs = "lab"
    THEN DistancesFrom(cs, rgb_to_lab(r, g, b), labs, 0)
    ELSE DistancesFrom(cs, <<r, g, b>>, rgb, 0)

\* min(d[i:]) given the minimum m of d[:i]
RECURSIVE MinFrom(_, _, _)
MinFrom(d, i, m) ==
    IF i > Len(d) THEN m
    ELSE MinFrom(d, i + 1, IF d[i] < m THEN d[i] ELSE m)

\* mutant: max(distances)
RECURSIVE MaxFrom(_, _, _)
MaxFrom(d, i, m) ==
    IF i > Len(d) THEN m
    ELSE MaxFrom(d, i + 1, IF d[i] > m THEN d[i] ELSE m)

MaxOf(d) == MaxFrom(d, 2, d[1])

\* min(distances)
MinOf(d) == MinFrom(d, 2, d[1])

\* the first position at or after i that holds m
RECURSIVE FirstFrom(_, _, _)
FirstFrom(d, m, i) == IF d[i] = m THEN i ELSE FirstFrom(d, m, i + 1)

\* mutant: the list index of the last occurrence of m
RECURSIVE LastFrom(_, _, _)
LastFrom(d, m, i) == IF d[i] = m THEN i ELSE LastFrom(d, m, i - 1)

IndexOfLast(d, m) == LastFrom(d, m, Len(d)) - 1

\* distances.index(m): the list index of the first occurrence of m
IndexOf(d, m) == FirstFrom(d, m, 1) - 1

\* find_closest_color(r, g, b) on a quantizer in state (cs, rgb, labs)
closest_in(cs, rgb, labs, r, g, b) ==
    LET distances == distances_of(cs, rgb, labs, r, g, b)
    IN  IndexOf(distances, MinOf(distances))

\* mutant: the search leaves the transparent slot 0 out
find_closest_color_skip0(r, g, b) ==
    LET distances == Tail(distances_of(color_space, colors_rgb, palette_lab, r, g, b))
    IN  IndexOf(distances, MinOf(distances)) + 1

\* mutant: the index counted from 1
find_closest_color_from1(r, g, b) ==
    closest_in(color_space, colors_rgb, palette_lab, r, g, b) + 1

\* find_closest_color(r, g, b) on the quantizer of the model
find_closest_color(r, g, b) == closest_in(color_space, colors_rgb, palette_lab, r, g, b)

(***************************************************************************)
(* Inputs of the model.                                                    *)
(***************************************************************************)
\* palette names a caller may pass: the four presets and an unregistered one
NameArgs == PaletteNames \cup {"amber"}
\* colour spaces a caller may pass: the three of main's --color-space, an
\* upper-case spelling and an unsupported one
MainSpaces == {"lab", "rgb", "hsv"}
SpaceArgs == MainSpaces \cup {"LAB", "cmyk"}
\* pixel colours: black, white, and a dark brown no preset holds
Black == <<0, 0, 0>>
White == <<255, 255, 255>>
Brown == <<40, 30, 20>>
Colors == {Black, White, Brown}
\* RGBA pixels: alpha on both sides of the transparency threshold
RgbaPixels == {<<Black, 128>>, <<Brown, 128>>, <<White, 127>>}
\* the presets the runs of the model use
RunPalettes == {"classic", "gameboy"}
\* add_custom_color arguments
SlotArgs == {-1, 0, 1, 16}
SlotColors == {Black, White}
\* indices of an index buffer handed to the packer directly
PackIndices == {0, 9, 15}

\* str.lower() on the colour-space names of the model
lower(s) == IF s = "LAB" THEN "lab" ELSE s

Rows(h) == 0..(h - 1)
Cols(w) == 0..(w - 1)
Buffers(w, h, S) == [Rows(h) -> [Cols(w) -> S]]
\* image_array[:, :, :3] and image_array[:, :, 3] of an RGBA image
RgbOf(pix) == [r \in DOMAIN pix |-> [c \in DOMAIN pix[r] |-> pix[r][c][1]]]
AlphaOf(pix) == [r \in DOMAIN pix |-> [c \in DOMAIN pix[r] |-> pix[r][c][2]]]
Shapes(n) == {wh \in (1..n) \X (1..n) : wh[1] * wh[2] <= n}
\* image sizes without pixels
ZeroShapes == {<<0, 0>>, <<0, 1>>, <<2, 0>>}

(***************************************************************************)
(* The start of main: nothing constructed yet.                             *)
(***************************************************************************)
NoRun ==
    /\ mode = None /\ dither = FALSE /\ width = 0 /\ height = 0
    /\ image = Absent /\ alpha_channel = Absent /\ image_array = Absent
    /\ result_array = Absent /\ y = 0 /\ x = 0

NoPack == data_bytes = <<>> /\ py = 0 /\ px = 0

NoCut ==
    /\ cut_positions = <<>> /\ position_mode = FALSE /\ image_height = 0
    /\ unique_cuts = <<>> /\ cut_i = 0 /\ start_y = 0 /\ saved_files = <<>>

NoHeader == image_paths = <<>> /\ image_data_list = <<>>

Init ==
    /\ pc = "start" /\ raised = None
    /\ name = None /\ colors_rgb = Absent /\ colors_rgb565 = Absent
    /\ transparent_index = 0
    /\ color_space = None /\ palette_lab = Absent
    /\ mutations = 0 /\ last_call = [op |-> None]
    /\ NoRun /\ NoPack /\ NoCut /\ NoHeader

(***************************************************************************)
(* ColorPalette.__init__(name) with _load_palette(name)                    *)
(***************************************************************************)
\* mutant: an unknown name falls back to the default preset
NewPalette_default(n) ==
    /\ pc = "start"
    /\ last_call' = [op |-> "ColorPalette", name |-> n]
    /\ raised' = None
    /\ pc' = "palette"
    /\ name' = IF n \in PaletteNames THEN n ELSE "classic"
    /\ transparent_index' = 0
    /\ colors_rgb' = AsList(palettes(IF n \in PaletteNames THEN n ELSE "classic"))
    /\ colors_rgb565' =
          convert_to_rgb565(AsList(palettes(IF n \in PaletteNames THEN n ELSE "classic")))
    /\ UNCHANGED <<quantizerVars, mutations, runVars, packVars, cutterVars, headerVars>>

NewPalette(n) ==
    /\ pc = "start"
    /\ last_call' = [op |-> "ColorPalette", name |-> n]
    /\ IF n \notin PaletteNames
       THEN /\ raised' = "ValueError"
            /\ pc' = "failed"
            /\ UNCHANGED paletteVars
       ELSE /\ raised' = None
            /\ pc' = "palette"
            /\ name' = n
            /\ transparent_index' = 0
            /\ colors_rgb' = AsList(palettes(n))
            /\ colors_rgb565' = convert_to_rgb565(AsList(palettes(n)))
    /\ UNCHANGED <<quantizerVars, mutations, runVars, packVars, cutterVars, headerVars>>

(***************************************************************************)
(* ColorQuantizer.__init__(palette, color_space)                           *)
(***************************************************************************)
NewQuantizer(cs) ==
    /\ pc = "palette"
    /\ pc' = "ready"
    /\ raised' = None
    /\ last_call' = [op |-> "ColorQuantizer", color_space |-> cs]
    /\ color_space' = lower(cs)
    /\ palette_lab' =
          IF lower(cs) = "lab"
          THEN [i \in DOMAIN colors_rgb |->
                   rgb_to_lab(colors_rgb[i][1], colors_rgb[i][2], colors_rgb[i][3])]
          ELSE Absent
    /\ UNCHANGED <<paletteVars, mutations, runVars, packVars, cutterVars, headerVars>>

(***************************************************************************)
(* ColorPalette.add_custom_color(index, r, g, b)                           *)
(***************************************************************************)
\* mutant: the guard without its lower bound
InRange_upper(index) == index < 16

\* "0 <= index < 16", the guard of add_custom_color
InRange(index) == 0 <= index /\ index < 16

\* Python's list[index]: a negative index counts from the end, an index
\* outside -len..len-1 raises IndexError
IndexRaises(list, index) ==
    LET n == Cardinality(DOMAIN list) IN index >= n \/ index < -n

\* mutant: list.insert(index, v) for an index in 0..len-1
ListStore_insert(list, index, v) ==
    LET n == Cardinality(DOMAIN list)
    IN  [i \in 0..n |-> IF i < index THEN list[i] ELSE IF i = index THEN v ELSE list[i - 1]]

\* list[index] = v
ListStore(list, index, v) ==
    LET n == Cardinality(DOMAIN list)
    IN  [list EXCEPT ![IF index < 0 THEN index + n ELSE index] = v]

\* list[index]
ListGet(list, index) ==
    LET n == Cardinality(DOMAIN list)
    IN  list[IF index < 0 THEN index + n ELSE index]

add_custom_color(index, c) ==
    /\ pc \in {"palette", "ready"}
    /\ mutations < MaxMutations
    /\ mutations' = mutations + 1
    /\ last_call' = [op |-> "add_custom_color", index |-> index, color |-> c]
    /\ IF InRange(index)
       THEN IF IndexRaises(colors_rgb, index)
            THEN /\ raised' = "IndexError"
                 /\ UNCHANGED <<colors_rgb, colors_rgb565>>
            ELSE /\ raised' = None
                 /\ colors_rgb' = ListStore(colors_rgb, index, c)
                 /\ colors_rgb565' = convert_to_rgb565(ListStore(colors_rgb, index, c))
       ELSE /\ raised' = None
            /\ UNCHANGED <<colors_rgb, colors_rgb565>>
    /\ UNCHANGED <<pc, name, transparent_index, quantizerVars, runVars, packVars, cutterVars, headerVars>>

(***************************************************************************)
(* ColorQuantizer.find_closest_color(r, g, b) called on its own            *)
(***************************************************************************)
Search(c) ==
    /\ pc = "ready"
    /\ raised' = None
    /\ last_call' = [op |-> "find_closest_color", pixel |-> c,
                     result |-> find_closest_color(c[1], c[2], c[3])]
    /\ UNCHANGED <<pc, paletteVars, quantizerVars, mutations, runVars, packVars, cutterVars, headerVars>>

(***************************************************************************)
(* ColorQuantizer.quantize_image(image, dither): the four paths            *)
(***************************************************************************)
\* np.array(image, dtype=np.float32)
ToFloat(img) == [r \in DOMAIN img |-> [c \in DOMAIN img[r] |->
                    <<img[r][c][1] * Scale, img[r][c][2] * Scale, img[r][c][3] * Scale>>]]

\* float.astype(int): truncation toward zero
astype_int(v) == IF v >= 0 THEN v \div Scale ELSE -((-v) \div Scale)

\* max(0, min(255, v))
Clamp(v) == Max2(0, Min2(255, v))

\* mutant: the threshold test written "<="
IsTransparent_le(a) == a <= 128

\* alpha_channel[y, x] < 128
IsTransparent(a) == a < 128

\* the colour the dithering paths look up for working value old_pixel
Lookup(old_pixel) ==
    <<Clamp(astype_int(old_pixel[1])), Clamp(astype_int(old_pixel[2])),
      Clamp(astype_int(old_pixel[3]))>>

\* mutant: the error taken from the clamped value
QuantError_clamped(old_pixel, new_pixel) ==
    <<Clamp(astype_int(old_pixel[1])) * Scale - new_pixel[1] * Scale,
      Clamp(astype_int(old_pixel[2])) * Scale - new_pixel[2] * Scale,
      Clamp(astype_int(old_pixel[3])) * Scale - new_pixel[3] * Scale>>

\* quant_error = old_pixel - new_pixel
QuantError(old_pixel, new_pixel) ==
    <<old_pixel[1] - new_pixel[1] * Scale, old_pixel[2] - new_pixel[2] * Scale,
      old_pixel[3] - new_pixel[3] * Scale>>

\* image_array[ty, tx] += quant_error * k/16
AddError(arr, ty, tx, e, k) ==
    [arr EXCEPT ![ty][tx] = <<@[1] + (e[1] * k) \div 16, @[2] + (e[2] * k) \div 16,
                              @[3] + (e[3] * k) \div 16>>]

\* mutant: the share of a right neighbour outside the buffer goes below
Diffuse_redirect(arr, w, h, yy, xx, e) ==
    LET a1 == IF xx < w - 1 THEN AddError(arr, yy, xx + 1, e, 7)
              ELSE IF yy < h - 1 THEN AddError(arr, yy + 1, xx, e, 7) ELSE arr
        a2 == IF yy < h - 1 /\ xx > 0 THEN AddError(a1, yy + 1, xx - 1, e, 3) ELSE a1
        a3 == IF yy < h - 1 THEN AddError(a2, yy + 1, xx, e, 5) ELSE a2
        a4 == IF yy < h - 1 /\ xx < w - 1 THEN AddError(a3, yy + 1, xx + 1, e, 1) ELSE a3
    IN  a4

\* mutant: the share of the pixel below taken as 4/16
Diffuse_below4(arr, w, h, yy, xx, e) ==
    LET a1 == IF xx < w - 1 THEN AddError(arr, yy, xx + 1, e, 7) ELSE arr
        a2 == IF yy < h - 1 /\ xx > 0 THEN AddError(a1, yy + 1, xx - 1, e, 3) ELSE a1
        a3 == IF yy < h - 1 THEN AddError(a2, yy + 1, xx, e, 4) ELSE a2
        a4 == IF yy < h - 1 /\ xx < w - 1 THEN AddError(a3, yy + 1, xx + 1, e, 1) ELSE a3
    IN  a4

\* the error diffusion of _floyd_steinberg_dither at (yy, xx)
Diffuse(arr, w, h, yy, xx, e) ==
    LET a1 == IF xx < w - 1 THEN AddError(arr, yy, xx + 1, e, 7) ELSE arr
        a2 == IF yy < h - 1 /\ xx > 0 THEN AddError(a1, yy + 1, xx - 1, e, 3) ELSE a1
        a3 == IF yy < h - 1 THEN AddError(a2, yy + 1, xx, e, 5) ELSE a2
        a4 == IF yy < h - 1 /\ xx < w - 1 THEN AddError(a3, yy + 1, xx + 1, e, 1) ELSE a3
    IN  a4

\* mutant: the alpha-aware diffusion without its alpha tests
DiffuseAlpha_unguarded(arr, al, w, h, yy, xx, e) == Diffuse(arr, w, h, yy, xx, e)

\* mutant: the alpha tests of the diffusion written "> 128"
DiffuseAlpha_strict(arr, al, w, h, yy, xx, e) ==
    LET a1 == IF xx < w - 1 /\ al[yy][xx + 1] > 128
              THEN AddError(arr, yy, xx + 1, e, 7) ELSE arr
        a2 == IF yy < h - 1 /\ xx > 0 /\ al[yy + 1][xx - 1] > 128
              THEN AddError(a1, yy + 1, xx - 1, e, 3) ELSE a1
        a3 == IF yy < h - 1 /\ al[yy + 1][xx] > 128
              THEN AddError(a2, yy + 1, xx, e, 5) ELSE a2
        a4 == IF yy < h - 1 /\ xx < w - 1 /\ al[yy + 1][xx + 1] > 128
              THEN AddError(a3, yy + 1, xx + 1, e, 1) ELSE a3
    IN  a4

\* the error diffusion of _floyd_steinberg_dither_with_alpha at (yy, xx)
DiffuseAlpha(arr, al, w, h, yy, xx, e) ==
    LET a1 == IF xx < w - 1 /\ al[yy][xx + 1] >= 128
              THEN AddError(arr, yy, xx + 1, e, 7) ELSE arr
        a2 == IF yy < h - 1 /\ xx > 0 /\ al[yy + 1][xx - 1] >= 128
              THEN AddError(a1, yy + 1, xx - 1, e, 3) ELSE a1
        a3 == IF yy < h - 1 /\ al[yy + 1][xx] >= 128
              THEN AddError(a2, yy + 1, xx, e, 5) ELSE a2
        a4 == IF yy < h - 1 /\ xx < w - 1 /\ al[yy + 1][xx + 1] >= 128
              THEN AddError(a3, yy + 1, xx + 1, e, 1) ELSE a3
    IN  a4

\* quantize_image: the dispatch on image.mode and dither, and the set-up of
\* the path taken (its arrays, its loops at the first pixel); on an image
\* with no pixels the loops have no iteration and the path returns
StartRun(m, d, w, h, img, al) ==
    /\ pc = "ready"
    /\ pc' = IF w = 0 \/ h = 0 THEN "quantized" ELSE "quantizing"
    /\ raised' = None
    /\ last_call' = [op |-> "quantize_image"]
    /\ mode' = m /\ dither' = d /\ width' = w /\ height' = h
    /\ image' = img
    /\ alpha_channel' = al
    /\ image_array' = IF d THEN ToFloat(img) ELSE img
    /\ result_array' = [r \in Rows(h) |-> [c \in Cols(w) |-> 0]]
    /\ y' = 0 /\ x' = 0
    /\ UNCHANGED <<paletteVars, quantizerVars, mutations, packVars, cutterVars, headerVars>>

\* mutant: the loops nested the other way round (column by column)
Advance_columns ==
    IF y + 1 < height THEN pc' = pc /\ y' = y + 1 /\ x' = x
    ELSE IF x + 1 < width THEN pc' = pc /\ y' = 0 /\ x' = x + 1
    ELSE pc' = "quantized" /\ y' = y /\ x' = x

\* mutant: the scan starts over after the last pixel
Advance_again ==
    IF x + 1 < width THEN pc' = pc /\ y' = y /\ x' = x + 1
    ELSE IF y + 1 < height THEN pc' = pc /\ y' = y + 1 /\ x' = 0
    ELSE pc' = pc /\ y' = 0 /\ x' = 0

\* the next iteration of "for y in range(height): for x in range(width)",
\* or the return of the path when the loops are done
Advance ==
    IF x + 1 < width THEN pc' = pc /\ y' = y /\ x' = x + 1
    ELSE IF y + 1 < height THEN pc' = pc /\ y' = y + 1 /\ x' = 0
    ELSE pc' = "quantized" /\ y' = y /\ x' = x

RunFrame ==
    UNCHANGED <<paletteVars, quantizerVars, mutations, last_call, mode, dither,
                width, height, image, alpha_channel, packVars, cutterVars, headerVars>>

\* one opaque pixel of the dithering paths: look up, write the index, fetch
\* the palette colour (an IndexError ends the run), diffuse the error with
\* or without the alpha tests
DitherPixel(with_alpha) ==
    LET old_pixel == image_array[y][x]
        rgb == Lookup(old_pixel)
        closest_idx == find_closest_color(rgb[1], rgb[2], rgb[3])
    IN  /\ result_array' = [result_array EXCEPT ![y][x] = closest_idx]
        /\ IF IndexRaises(colors_rgb, closest_idx)
           THEN /\ raised' = "IndexError"
                /\ pc' = "failed"
                /\ UNCHANGED <<image_array, y, x>>
           ELSE LET quant_error == QuantError(old_pixel, ListGet(colors_rgb, closest_idx))
                IN  /\ raised' = raised
                    /\ image_array' =
                          IF with_alpha
                          THEN DiffuseAlpha(image_array, alpha_channel, width, height,
                                            y, x, quant_error)
                          ELSE Diffuse(image_array, width, height, y, x, quant_error)
                    /\ Advance

\* one pixel of _quantize_with_alpha
QuantizeWithAlphaStep ==
    /\ pc = "quantizing" /\ mode = "RGBA" /\ ~dither
    /\ result_array' =
          [result_array EXCEPT ![y][x] =
              IF IsTransparent(alpha_channel[y][x])
              THEN transparent_index
              ELSE find_closest_color(image_array[y][x][1], image_array[y][x][2],
                                      image_array[y][x][3])]
    /\ Advance
    /\ UNCHANGED <<raised, image_array>>
    /\ RunFrame

\* mutant: r, g, b of the previous pixel of the row carried into the search
SimpleQuantizeStep_carry ==
    /\ pc = "quantizing" /\ mode = "RGB" /\ ~dither
    /\ result_array' =
          [result_array EXCEPT ![y][x] =
              LET c == IF x > 0 THEN image_array[y][x - 1] ELSE image_array[y][x]
              IN  find_closest_color(c[1], c[2], c[3])]
    /\ Advance
    /\ UNCHANGED <<raised, image_array>>
    /\ RunFrame

\* one pixel of _simple_quantize
SimpleQuantizeStep ==
    /\ pc = "quantizing" /\ mode = "RGB" /\ ~dither
    /\ result_array' =
          [result_array EXCEPT ![y][x] =
              find_closest_color(image_array[y][x][1], image_array[y][x][2],
                                 image_array[y][x][3])]
    /\ Advance
    /\ UNCHANGED <<raised, image_array>>
    /\ RunFrame

\* one pixel of _floyd_steinberg_dither
FloydSteinbergStep ==
    /\ pc = "quantizing" /\ mode = "RGB" /\ dither
    /\ DitherPixel(FALSE)
    /\ RunFrame

\* one pixel of _floyd_steinberg_dither_with_alpha
FloydSteinbergAlphaStep ==
    /\ pc = "quantizing" /\ mode = "RGBA" /\ dither
    /\ IF IsTransparent(alpha_channel[y][x])
       THEN /\ result_array' = [result_array EXCEPT ![y][x] = transparent_index]
            /\ UNCHANGED <<raised, image_array>>
            /\ Advance
       ELSE DitherPixel(TRUE)
    /\ RunFrame

(***************************************************************************)
(* M5DataGenerator.generate_data_array(quantized_image, base_var_name)     *)
(***************************************************************************)
\* mutant: the two pixels of a pair in each other's nibble
byte_value_swapped(img, w, yy, xx) ==
    LET pixel1 == IF xx < w THEN img[yy][xx] ELSE 0
        pixel2 == IF xx + 1 < w THEN img[yy][xx + 1] ELSE 0
    IN  BitOr(Shl(pixel1, 4), BitAnd(pixel2, 15))

\* byte_value for the pair starting at column xx of row yy
byte_value(img, w, yy, xx) ==
    LET pixel1 == IF xx < w THEN img[yy][xx] ELSE 0
        pixel2 == IF xx + 1 < w THEN img[yy][xx + 1] ELSE 0
    IN  BitOr(Shl(pixel2, 4), BitAnd(pixel1, 15))

\* one iteration of "for y in range(height): for x in range(0, width, 2)"
PackStep ==
    /\ pc \in {"quantized", "packing"}
    /\ IF width = 0 \/ height = 0
       THEN pc' = "packed" /\ UNCHANGED packVars
       ELSE /\ data_bytes' = Append(data_bytes, byte_value(result_array, width, py, px))
            /\ IF px + 2 < width THEN pc' = "packing" /\ py' = py /\ px' = px + 2
               ELSE IF py + 1 < height THEN pc' = "packing" /\ py' = py + 1 /\ px' = 0
               ELSE pc' = "packed" /\ py' = py /\ px' = px
    /\ UNCHANGED <<raised, paletteVars, quantizerVars, mutations, last_call, runVars,
                 cutterVars, headerVars>>

\* the data size main prints in its conversion summary
summary_data_size(w, h) == (w * h + 1) \div 2

(***************************************************************************)
(* Specifications                                                          *)
(***************************************************************************)
\* main: a preset and a colour space of the command line, one image, one
\* quantization run, the packing of its result
Next ==
    \/ \E n \in RunPalettes : NewPalette(n)
    \/ \E cs \in MainSpaces : NewQuantizer(cs)
    \/ /\ pc = "ready"
       /\ \E d \in BOOLEAN, wh \in Shapes(MaxPixels) \cup ZeroShapes :
             \E img \in Buffers(wh[1], wh[2], Colors) :
                StartRun("RGB", d, wh[1], wh[2], img, Absent)
    \/ /\ pc = "ready"
       /\ \E d \in BOOLEAN, wh \in Shapes(MaxPixels) \cup ZeroShapes :
             \E pix \in Buffers(wh[1], wh[2], RgbaPixels) :
                StartRun("RGBA", d, wh[1], wh[2], RgbOf(pix), AlphaOf(pix))
    \/ QuantizeWithAlphaStep
    \/ SimpleQuantizeStep
    \/ FloydSteinbergStep
    \/ FloydSteinbergAlphaStep
    \/ PackStep

Spec == Init /\ [][Next]_vars

\* the palette and the quantizer as a library: any name, any colour space,
\* slot mutations and searches in any order
NextPalette ==
    \/ \E n \in NameArgs : NewPalette(n)
    \/ \E cs \in SpaceArgs : NewQuantizer(cs)
    \/ \E index \in SlotArgs, c \in SlotColors : add_custom_color(index, c)
    \/ \E c \in Colors : Search(c)

SpecPalette == Init /\ [][NextPalette]_vars

\* the packer on any index buffer
InitPack ==
    /\ pc = "quantized" /\ raised = None
    /\ name = None /\ colors_rgb = Absent /\ colors_rgb565 = Absent
    /\ transparent_index = 0
    /\ color_space = None /\ palette_lab = Absent
    /\ mutations = 0 /\ last_call = [op |-> None]
    /\ mode = None /\ dither = FALSE
    /\ image = Absent /\ alpha_channel = Absent /\ image_array = Absent
    /\ y = 0 /\ x = 0
    /\ \E wh \in Shapes(MaxPackCells) :
          /\ width = wh[1] /\ height = wh[2]
          /\ result_array \in Buffers(wh[1], wh[2], PackIndices)
    /\ NoPack /\ NoCut /\ NoHeader

NextPack == PackStep

SpecPack == InitPack /\ [][NextPack]_vars

(***************************************************************************)
(* The RGB565 conversions called on their own: ColorPalette's packing of   *)
(* one colour and M5ImageConverter.rgb888_to_rgb565                        *)
(***************************************************************************)
ChannelMax == 255

\* M5ImageConverter.rgb888_to_rgb565(r, g, b)
rgb888_to_rgb565(r, g, b) ==
    LET r5 == BitAnd(Shr(r, 3), 31)
        g6 == BitAnd(Shr(g, 2), 63)
        b5 == BitAnd(Shr(b, 3), 31)
    IN  BitOr(BitOr(Shl(r5, 11), Shl(g6, 5)), b5)

\* argument triples: each channel over its whole range against a few values
\* of the other two
ChannelSamples == {0, 7, 85, ChannelMax}
Rgb565Inputs ==
    ((0..ChannelMax) \X ChannelSamples \X ChannelSamples)
        \cup (ChannelSamples \X (0..ChannelMax) \X ChannelSamples)
        \cup (ChannelSamples \X ChannelSamples \X (0..ChannelMax))

\* nothing constructed, one call pending
Pending(call) ==
    /\ pc = "start" /\ raised = None
    /\ name = None /\ colors_rgb = Absent /\ colors_rgb565 = Absent
    /\ transparent_index = 0
    /\ color_space = None /\ palette_lab = Absent
    /\ mutations = 0 /\ last_call = call
    /\ NoRun /\ NoPack /\ NoCut /\ NoHeader

InitRgb565 == \E c \in Rgb565Inputs : Pending([op |-> "rgb565", args |-> c])

\* both conversions applied to the pending arguments
Rgb565Return ==
    /\ last_call.op = "rgb565"
    /\ last_call' = [op |-> "rgb565 returned", args |-> last_call.args,
                     palette_store |-> rgb565_of(last_call.args),
                     converter |-> rgb888_to_rgb565(last_call.args[1], last_call.args[2],
                                                    last_call.args[3])]
    /\ UNCHANGED <<pc, raised, paletteVars, quantizerVars, mutations, runVars, packVars, cutterVars, headerVars>>

NextRgb565 == Rgb565Return

SpecRgb565 == InitRgb565 /\ [][NextRgb565]_vars

(***************************************************************************)
(* The hue term of the HSV distance called on its own                      *)
(***************************************************************************)
\* hues of [0, 1) in 1/HsvScale units: a grid, the neighbours of one half
\* and the two ends
HueSamples ==
    {h \in 0..(HsvScale - 1) :
        h % 125 = 0 \/ h \in {1, 4999, 5001, HsvScale - 2, HsvScale - 1}}

InitHue == \E h1 \in HueSamples, h2 \in HueSamples :
              Pending([op |-> "dh", h1 |-> h1, h2 |-> h2])

\* the hue term computed for the pending hues, in both argument orders
HueReturn ==
    /\ last_call.op = "dh"
    /\ last_call' = [op |-> "dh returned", h1 |-> last_call.h1, h2 |-> last_call.h2,
                     dh |-> hue_term(last_call.h1, last_call.h2),
                     dh_swapped |-> hue_term(last_call.h2, last_call.h1)]
    /\ UNCHANGED <<pc, raised, paletteVars, quantizerVars, mutations, runVars, packVars, cutterVars, headerVars>>

NextHue == HueReturn

SpecHue == InitHue /\ [][NextHue]_vars

(***************************************************************************)
(* image_cutter.py: cut_image_sections(image_path, cut_positions,          *)
(* position_mode) with cut_by_heights and cut_by_absolute_positions        *)
(***************************************************************************)
MaxCuts == 3            \* cut values on the command line
MaxCutValue == 3        \* largest cut value
MaxImageHeight == 5     \* image height in pixels

\* args.cuts: one or more integers (nargs='+', type=int)
CutValues == (-1)..MaxCutValue
CutLists == UNION {[1..n -> CutValues] : n \in 1..MaxCuts}

\* sorted(S)
RECURSIVE SortedSeq(_)
SortedSeq(S) ==
    IF S = {} THEN <<>>
    ELSE LET least == CHOOSE m \in S : \A n \in S : m <= n
         IN  <<least>> \o SortedSeq(S \ {least})

\* set(cut_positions)
SetOf(seq) == {seq[k] : k \in DOMAIN seq}

\* unique_cuts = sorted(set(cut_positions))
unique_cuts_of(cuts) == SortedSeq(SetOf(cuts))

\* the image cutter started on an image of some height with some cut list
InitCutter ==
    /\ pc = "cutter" /\ raised = None
    /\ name = None /\ colors_rgb = Absent /\ colors_rgb565 = Absent
    /\ transparent_index = 0
    /\ color_space = None /\ palette_lab = Absent
    /\ mutations = 0 /\ last_call = [op |-> None]
    /\ NoRun /\ NoPack /\ NoHeader
    /\ cut_positions \in CutLists
    /\ position_mode \in BOOLEAN
    /\ image_height \in 1..MaxImageHeight
    /\ unique_cuts = <<>> /\ cut_i = 0 /\ start_y = 0 /\ saved_files = <<>>

CutterFrame ==
    UNCHANGED <<raised, paletteVars, quantizerVars, mutations, last_call, runVars,
                packVars, cut_positions, position_mode, image_height, headerVars>>

\* cut_image_sections up to the call of the loop of its mode
cut_image_sections ==
    /\ pc = "cutter"
    /\ unique_cuts' = unique_cuts_of(cut_positions)
    /\ pc' = IF position_mode THEN "cut_by_absolute_positions" ELSE "cut_by_heights"
    /\ cut_i' = 0 /\ start_y' = 0 /\ saved_files' = <<>>
    /\ CutterFrame

\* the file saved for a section: its index in the name, and its rows
Section(i, top, bottom) == [index |-> i, start_y |-> top, end_y |-> bottom]

\* "continue", or the return when the list is exhausted
NextCut(n) ==
    IF cut_i + 1 < n THEN pc' = pc /\ cut_i' = cut_i + 1
    ELSE pc' = "cut done" /\ cut_i' = cut_i

\* "break"
LeaveLoop == pc' = "cut done" /\ cut_i' = cut_i

\* one iteration of the loop of cut_by_heights
CutByHeightsStep ==
    /\ pc = "cut_by_heights"
    /\ LET cut_height == unique_cuts[cut_i + 1]
           end_y == Min2(start_y + cut_height, image_height)
       IN  IF cut_height <= 0
           THEN NextCut(Len(unique_cuts)) /\ UNCHANGED <<start_y, saved_files>>
           ELSE IF start_y >= image_height
           THEN LeaveLoop /\ UNCHANGED <<start_y, saved_files>>
           ELSE IF start_y >= end_y
           THEN NextCut(Len(unique_cuts)) /\ UNCHANGED <<start_y, saved_files>>
           ELSE /\ saved_files' = Append(saved_files, Section(cut_i, start_y, end_y))
                /\ start_y' = end_y
                /\ IF end_y >= image_height THEN LeaveLoop ELSE NextCut(Len(unique_cuts))
    /\ UNCHANGED unique_cuts
    /\ CutterFrame

\* one iteration of the loop of cut_by_absolute_positions
CutByPositionsStep ==
    /\ pc = "cut_by_absolute_positions"
    /\ LET positions == <<0>> \o unique_cuts
           top == positions[cut_i + 1]
           bottom == positions[cut_i + 2]
       IN  /\ start_y' = top
           /\ IF top >= image_height
              THEN LeaveLoop /\ UNCHANGED saved_files
              ELSE IF bottom <= top
              THEN NextCut(Len(positions) - 1) /\ UNCHANGED saved_files
              ELSE /\ saved_files' =
                         Append(saved_files,
                                Section(cut_i, top, Min2(bottom, image_height)))
                   /\ NextCut(Len(positions) - 1)
    /\ UNCHANGED unique_cuts
    /\ CutterFrame

NextCutter ==
    \/ cut_image_sections
    \/ CutByHeightsStep
    \/ CutByPositionsStep

SpecCutter == InitCutter /\ [][NextCutter]_vars

\* one iteration of the pixel loops of whichever path the run took
PixelStep ==
    \/ QuantizeWithAlphaStep
    \/ SimpleQuantizeStep
    \/ FloydSteinbergStep
    \/ FloydSteinbergAlphaStep

\* main as a sequential program: a pixel loop that has a next iteration
\* takes it.  This is WF_vars(PixelStep) with ENABLED <<PixelStep>>_vars
\* written out: a pixel step is possible exactly when pc = "quantizing"
\* (every branch of the four steps is defined for every pixel of the run)
LoopsProceed == []<>(pc # "quantizing") \/ []<><<PixelStep>>_vars

SpecFair == Init /\ [][Next]_vars /\ LoopsProceed

\* the dithering path on the smallest image with an interior pixel: all four
\* diffusion targets of pixel (x, y) = (1, 0) lie inside a 3x2 buffer
WideShape == <<3, 2>>

NextDither ==
    \/ \E n \in RunPalettes : NewPalette(n)
    \/ \E cs \in MainSpaces : NewQuantizer(cs)
    \/ /\ pc = "ready"
       /\ \E img \in Buffers(WideShape[1], WideShape[2], Colors) :
             StartRun("RGB", TRUE, WideShape[1], WideShape[2], img, Absent)
    \/ FloydSteinbergStep

SpecDither == Init /\ [][NextDither]_vars

(***************************************************************************)
(* The 1-bit C header converter (src/append/image_to_c_header.py):         *)
(* process_images names one array per converted file.  A string is the     *)
(* sequence of its characters.                                             *)
(***************************************************************************)
MaxFiles == 3           \* files on the command line

LowerCase == <<"a", "b", "c", "d", "e", "f", "g", "h", "i", "j", "k", "l", "m",
               "n", "o", "p", "q", "r", "s", "t", "u", "v", "w", "x", "y", "z">>
UpperCase == <<"A", "B", "C", "D", "E", "F", "G", "H", "I", "J", "K", "L", "M",
               "N", "O", "P", "Q", "R", "S", "T", "U", "V", "W", "X", "Y", "Z">>
DigitChars == <<"0", "1", "2", "3", "4", "5", "6", "7", "8", "9">>

\* the characters of 'a-zA-Z0-9_'
IsWordChar(c) ==
    \/ \E k \in DOMAIN LowerCase : c = LowerCase[k] \/ c = UpperCase[k]
    \/ \E k \in DOMAIN DigitChars : c = DigitChars[k]
    \/ c = "_"

\* c.isdigit()
isdigit(c) == \E k \in DOMAIN DigitChars : c = DigitChars[k]

\* str.lower() and str.upper(), character by character
lower_char(c) ==
    IF \E k \in DOMAIN UpperCase : c = UpperCase[k]
    THEN LowerCase[CHOOSE k \in DOMAIN UpperCase : c = UpperCase[k]] ELSE c
upper_char(c) ==
    IF \E k \in DOMAIN LowerCase : c = LowerCase[k]
    THEN UpperCase[CHOOSE k \in DOMAIN LowerCase : c = LowerCase[k]] ELSE c
str_lower(s) == [k \in DOMAIN s |-> lower_char(s[k])]
str_upper(s) == [k \in DOMAIN s |-> upper_char(s[k])]

\* str(counter)
RECURSIVE str_of_int(_)
str_of_int(n) ==
    IF n < 10 THEN <<DigitChars[n + 1]>>
    ELSE str_of_int(n \div 10) \o <<DigitChars[(n % 10) + 1]>>

\* Path(filename).stem: the name up to its last dot, unless that dot is the
\* first or the last character
stem(filename) ==
    LET dots == {k \in DOMAIN filename : filename[k] = "." /\ 1 < k /\ k < Len(filename)}
    IN  IF dots = {} THEN filename
        ELSE SubSeq(filename, 1, (CHOOSE k \in dots : \A j \in dots : j <= k) - 1)

\* re.sub(r'[^a-zA-Z0-9_]', '_', name)
replace_non_word(s) == [k \in DOMAIN s |-> IF IsWordChar(s[k]) THEN s[k] ELSE "_"]

\* sanitize_variable_name(filename)
sanitize_variable_name(filename) ==
    LET n1 == replace_non_word(stem(filename))
        n2 == IF n1 # <<>> /\ isdigit(n1[1]) THEN <<"i", "m", "g", "_">> \o n1 ELSE n1
        n3 == IF n2 = <<>> \/ \A k \in DOMAIN n2 : n2[k] = "_"
              THEN <<"i", "m", "a", "g", "e", "_", "d", "a", "t", "a">> ELSE n2
    IN  str_lower(n3)

\* mutant: the duplicate check made once ("if" for "while")
free_name_once(original_var_name, var_name, counter, existing_names) ==
    IF var_name \in existing_names
    THEN original_var_name \o <<"_">> \o str_of_int(counter)
    ELSE var_name

\* while var_name in existing_names:
\*     var_name = f"{original_var_name}_{counter}"; counter += 1
RECURSIVE free_name(_, _, _, _)
free_name(original_var_name, var_name, counter, existing_names) ==
    IF var_name \in existing_names
    THEN free_name(original_var_name,
                   original_var_name \o <<"_">> \o str_of_int(counter), counter + 1,
                   existing_names)
    ELSE var_name

\* the macro names generate_c_header_content derives from a variable name
width_const(var_name) == str_upper(var_name) \o <<"_", "W", "I", "D", "T", "H">>
height_const(var_name) == str_upper(var_name) \o <<"_", "H", "E", "I", "G", "H", "T">>

\* file names of the command line: plain, upper case, already suffixed, with
\* a character the sanitizer replaces, starting with a digit, with nothing
\* but such characters, and the default name itself
FileNames ==
    { <<"a", ".", "p", "n", "g">>,
      <<"A", ".", "b", "m", "p">>,
      <<"a", "_", "1", ".", "p", "n", "g">>,
      <<"a", "-", "1", ".", "b", "m", "p">>,
      <<"1", ".", "p", "n", "g">>,
      <<"i", "m", "g", "_", "1", ".", "b", "m", "p">>,
      <<"-", ".", "p", "n", "g">>,
      <<"i", "m", "a", "g", "e", "_", "d", "a", "t", "a", ".", "p", "n", "g">> }

FileLists == UNION {[1..n -> FileNames] : n \in 1..MaxFiles}

\* process_images started on a list of files
InitHeader ==
    /\ pc = "process_images" /\ raised = None
    /\ name = None /\ colors_rgb = Absent /\ colors_rgb565 = Absent
    /\ transparent_index = 0
    /\ color_space = None /\ palette_lab = Absent
    /\ mutations = 0 /\ last_call = [op |-> None]
    /\ NoRun /\ NoPack /\ NoCut
    /\ image_paths \in FileLists
    /\ image_data_list = <<>>

\* one iteration of "for image_path in image_paths"; converted says whether
\* the file exists and convert_image_to_1bit_array returned (otherwise the
\* iteration ends with "continue" and adds nothing)
ProcessImage(converted) ==
    /\ pc = "process_images"
    /\ image_paths # <<>>
    /\ LET path_name == Head(image_paths)
           original_var_name == sanitize_variable_name(path_name)
           existing_names == {image_data_list[k].var_name : k \in DOMAIN image_data_list}
           var_name == free_name(original_var_name, original_var_name, 1, existing_names)
       IN  image_data_list' =
              IF converted
              THEN Append(image_data_list,
                          [var_name |-> var_name, original_file |-> path_name])
              ELSE image_data_list
    /\ image_paths' = Tail(image_paths)
    /\ pc' = IF Tail(image_paths) = <<>> THEN "images processed" ELSE pc
    /\ UNCHANGED <<raised, paletteVars, quantizerVars, mutations, last_call, runVars,
                   packVars, cutterVars>>

NextHeader == \E converted \in BOOLEAN : ProcessImage(converted)

SpecHeader == InitHeader /\ [][NextHeader]_vars

(***************************************************************************)
(* Vocabulary of the properties                                            *)
(***************************************************************************)
RunPcs == {"quantizing", "quantized", "packing", "packed"}
DonePcs == {"quantized", "packing", "packed"}

\* pixel (yy, xx) has been handled by the quantization loop
Processed(yy, xx) ==
    \/ pc \in DonePcs
    \/ pc = "quantizing" /\ (yy < y \/ (yy = y /\ xx < x))

\* pixel (yy, xx) is opaque for the run: no alpha channel, or alpha >= 128
Opaque(yy, xx) == mode = "RGB" \/ (mode = "RGBA" /\ alpha_channel[yy][xx] >= 128)

\* the colour the run handed to the search for a processed pixel
Searched(yy, xx) == IF dither THEN Lookup(image_array[yy][xx]) ELSE image[yy][xx]

\* the distances the search of the quantizer computes for colour c
DistancesTo(c) == distances_of(color_space, colors_rgb, palette_lab, c[1], c[2], c[3])

\* model sanity: every diffused share (error * k / 16) is an exact multiple
\* of the working-buffer unit, so the fixed-point buffer equals the float32 one
DiffusionExact ==
    (pc = "quantizing" /\ dither /\ Opaque(y, x)) =>
        LET old_pixel == image_array[y][x]
            rgb == Lookup(old_pixel)
            e == QuantError(old_pixel, colors_rgb[find_closest_color(rgb[1], rgb[2], rgb[3])])
        IN  \/ (x = width - 1 /\ y = height - 1)
            \/ \A ch \in 1..3 : e[ch] % 16 = 0

(***************************************************************************)
(* C1.  In both alpha paths (_quantize_with_alpha and                      *)
(* _floyd_steinberg_dither_with_alpha) a pixel whose alpha is below 128    *)
(* gets index 0, whatever its colour and whatever error reached it; a      *)
(* pixel whose alpha is 128 or more gets the index the nearest-colour      *)
(* search returns for the colour looked up (stated of the finished run,    *)
(* which holds every written index).                                       *)
(***************************************************************************)
C1_TransparentRule ==
    (pc = "quantized" /\ mode = "RGBA") =>
        \A yy \in Rows(height), xx \in Cols(width) :
            IF alpha_channel[yy][xx] < 128
            THEN result_array[yy][xx] = 0
            ELSE result_array[yy][xx] =
                    find_closest_color(Searched(yy, xx)[1], Searched(yy, xx)[2],
                                       Searched(yy, xx)[3])

\* a finished dithered RGBA run with an opaque pixel (alpha exactly 128) that
\* diffused a non-zero error over a transparent right neighbour whose own
\* colour would not map to 0, and with an opaque pixel that received error
C1_Witness ==
    /\ pc = "quantized" /\ mode = "RGBA" /\ dither
    /\ \E yy \in Rows(height), xx \in Cols(width) :
          /\ xx + 1 < width
          /\ alpha_channel[yy][xx] = 128
          /\ result_array[yy][xx] # 0
          /\ image_array[yy][xx] # <<colors_rgb[result_array[yy][xx]][1] * Scale,
                                     colors_rgb[result_array[yy][xx]][2] * Scale,
                                     colors_rgb[result_array[yy][xx]][3] * Scale>>
          /\ alpha_channel[yy][xx + 1] = 127
          /\ image[yy][xx + 1] = White
          /\ result_array[yy][xx + 1] = 0
    /\ \E yy \in Rows(height), xx \in Cols(width) :
          /\ alpha_channel[yy][xx] >= 128
          /\ image_array[yy][xx] # ToFloat(image)[yy][xx]

(***************************************************************************)
(* Vocabulary of the packing properties                                    *)
(***************************************************************************)
\* cell k of the row-major flattened index buffer
Flat(k) == result_array[k \div width][k % width]

\* ceil(a / 2)
CeilHalf(a) == (a + 1) \div 2

\* the inverse of the flat format: cell k is the low nibble of byte k div 2
\* when k is even, the high nibble when k is odd
UnpackFlat(bytes, k) ==
    IF k % 2 = 0 THEN bytes[k \div 2 + 1] % 16 ELSE bytes[k \div 2 + 1] \div 16

(***************************************************************************)
(* C2.  The packed byte sequence of a width x height index buffer has      *)
(* exactly ceil(width * height / 2) bytes, the number the conversion       *)
(* summary of main reports as data size.                                   *)
(***************************************************************************)
C2_PackedLength ==
    pc = "packed" =>
        /\ Len(data_bytes) = CeilHalf(width * height)
        /\ Len(data_bytes) = summary_data_size(width, height)

(***************************************************************************)
(* C3.  Packing does not align rows to byte boundaries: byte i holds cell  *)
(* 2i of the flattened index buffer in its low nibble and cell 2i+1 in     *)
(* its high nibble (0 past the end).                                       *)
(***************************************************************************)
C3_FlatLayout ==
    pc = "packed" =>
        \A i \in 0..(CeilHalf(width * height) - 1) :
            /\ i + 1 <= Len(data_bytes)
            /\ data_bytes[i + 1] % 16 = Flat(2 * i)
            /\ data_bytes[i + 1] \div 16 =
                  (IF 2 * i + 1 < width * height THEN Flat(2 * i + 1) ELSE 0)

(***************************************************************************)
(* C4.  The packer walks the rows top to bottom and, within a row, the     *)
(* column pairs (x, x+1), x = 0, 2, 4, ..., left to right; the byte of a   *)
(* pair is (index[x+1] << 4) | (index[x] & 0x0F), with a zero high nibble  *)
(* when x+1 is outside the row, and lies in 0..255.                        *)
(***************************************************************************)
C4_RowPairs ==
    pc \in {"quantized", "packing", "packed"} =>
        LET perRow == CeilHalf(width) IN
        /\ \A k \in 1..Len(data_bytes) :
              LET yy == (k - 1) \div perRow
                  xx == 2 * ((k - 1) % perRow)
              IN  /\ yy < height
                  /\ data_bytes[k] =
                        16 * (IF xx + 1 < width THEN result_array[yy][xx + 1] ELSE 0)
                        + (result_array[yy][xx] % 16)
                  /\ data_bytes[k] \in 0..255
        /\ pc = "packed" => Len(data_bytes) = height * perRow
        /\ pc # "packed" => Len(data_bytes) = py * perRow + px \div 2

\* a packed buffer of odd width and more than one row whose last column is
\* not 0, so that a zero-filled high nibble stands beside a used low nibble
C4_Witness ==
    /\ pc = "packed" /\ width = 3 /\ height = 2
    /\ result_array[0][2] = 15 /\ result_array[0][1] = 9 /\ result_array[0][0] = 15
    /\ result_array[1][0] = 9
    /\ data_bytes[2] = 15

(***************************************************************************)
(* C5.  Unpacking the packed bytes with the inverse of the flat format     *)
(* (cell k from byte k div 2, low nibble for even k, high for odd k)       *)
(* reproduces the index buffer, for odd widths too.                        *)
(***************************************************************************)
C5_RoundTripFlat ==
    pc = "packed" =>
        \A k \in 0..(width * height - 1) :
            /\ k \div 2 + 1 <= Len(data_bytes)
            /\ UnpackFlat(data_bytes, k) = Flat(k)

(***************************************************************************)
(* C6.  The 2x1 fully opaque buffer [(255,255,255), (0,0,0)] quantized     *)
(* against the classic palette without dithering resolves to indices       *)
(* [1, 0] (both colours are palette entries, at distance 0) and packs to   *)
(* the single byte 0x10.                                                   *)
(***************************************************************************)
C6_Scenario ==
    /\ pc \in DonePcs
    /\ name = "classic" /\ colors_rgb = AsList(palettes("classic"))
    /\ ~dither /\ width = 2 /\ height = 1
    /\ image[0][0] = White /\ image[0][1] = Black
    /\ Opaque(0, 0) /\ Opaque(0, 1)

C6_WhiteBlack_0x10 ==
    C6_Scenario =>
        /\ result_array[0][0] = 1 /\ result_array[0][1] = 0
        /\ DistancesTo(White)[2] = 0 /\ DistancesTo(Black)[1] = 0
        /\ pc = "packed" => data_bytes = <<16>>

\* C6 as amended: the indices are [1, 0], at distance 0, and the single
\* packed byte is 0x01 (white's index 1 in the low nibble, black's index 0
\* in the high nibble)
C6_WhiteBlack ==
    C6_Scenario =>
        /\ result_array[0][0] = 1 /\ result_array[0][1] = 0
        /\ DistancesTo(White)[2] = 0 /\ DistancesTo(Black)[1] = 0
        /\ pc = "packed" => data_bytes = <<1>>

\* the scenario, packed, under the perceptual (Lab) metric
C6_Witness == C6_Scenario /\ pc = "packed" /\ color_space = "lab" /\ Len(data_bytes) = 1

(***************************************************************************)
(* C7.  The nearest-colour search returns an index in 0..15, and two       *)
(* calls with the same pixel under the same palette and metric return the  *)
(* same index: within a run, any two opaque pixels looked up with the      *)
(* same colour carry the same index.                                       *)
(***************************************************************************)
C7_RangeAndDeterminism ==
    pc \in RunPcs =>
        \A y1 \in Rows(height), x1 \in Cols(width) :
            (Processed(y1, x1) /\ Opaque(y1, x1)) =>
                /\ result_array[y1][x1] \in 0..15
                /\ \A y2 \in Rows(height), x2 \in Cols(width) :
                      (Processed(y2, x2) /\ Opaque(y2, x2)
                         /\ Searched(y2, x2) = Searched(y1, x1)) =>
                            result_array[y2][x2] = result_array[y1][x1]

\* a finished dithered run in which two pixels with different working values
\* were looked up with the same colour, and the last palette index occurs
C7_Witness ==
    /\ pc = "quantized" /\ dither
    /\ \E y1 \in Rows(height), x1 \in Cols(width), y2 \in Rows(height), x2 \in Cols(width) :
          /\ <<y1, x1>> # <<y2, x2>>
          /\ Opaque(y1, x1) /\ Opaque(y2, x2)
          /\ image_array[y1][x1] # image_array[y2][x2]
          /\ Searched(y1, x1) = Searched(y2, x2)
    /\ \E y1 \in Rows(height), x1 \in Cols(width) :
          Opaque(y1, x1) /\ result_array[y1][x1] = 15

(***************************************************************************)
(* C8.  The nearest-colour search returns an index at minimal distance     *)
(* over all 16 entries it compares, and among entries at exactly the       *)
(* minimal distance the lowest index.                                      *)
(***************************************************************************)
C8_FirstMinimum ==
    last_call.op = "find_closest_color" =>
        LET d == DistancesTo(last_call.pixel)
            res == last_call.result
        IN  /\ Len(d) = 16
            /\ res \in 0..15
            /\ \A j \in 1..16 : d[res + 1] <= d[j]
            /\ \A j \in 1..16 : j < res + 1 => d[j] > d[res + 1]

\* a search in which two entries are at exactly the minimal distance
C8_Witness ==
    /\ last_call.op = "find_closest_color"
    /\ LET d == DistancesTo(last_call.pixel)
       IN  \E j \in 1..16 : j # last_call.result + 1 /\ d[j] = d[last_call.result + 1]

(***************************************************************************)
(* C9.  Palette index 0 is never matched against an opaque pixel: the      *)
(* index written for a pixel with alpha >= 128, or of an image without     *)
(* alpha, is in 1..15.                                                     *)
(***************************************************************************)
C9_NeverZeroForOpaque ==
    pc \in RunPcs =>
        \A yy \in Rows(height), xx \in Cols(width) :
            (Processed(yy, xx) /\ Opaque(yy, xx)) => result_array[yy][xx] \in 1..15

\* C9 as amended: the index written for an opaque pixel is in 0..15, and it
\* is 0 exactly when palette entry 0 is at minimal distance from the colour
\* looked up (stated of the finished run, which holds every written index)
C9_ZeroOnlyWhenNearest ==
    pc = "quantized" =>
        \A yy \in Rows(height), xx \in Cols(width) :
            (Processed(yy, xx) /\ Opaque(yy, xx)) =>
                LET d == DistancesTo(Searched(yy, xx))
                IN  /\ result_array[yy][xx] \in 0..15
                    /\ result_array[yy][xx] = 0 <=> \A j \in 1..16 : d[1] <= d[j]

\* a finished run with an opaque black pixel at index 0 beside an opaque
\* pixel at another index
C9_Witness ==
    /\ pc = "quantized"
    /\ \E yy \in Rows(height), xx \in Cols(width) :
          Opaque(yy, xx) /\ image[yy][xx] = Black /\ result_array[yy][xx] = 0
    /\ \E yy \in Rows(height), xx \in Cols(width) :
          Opaque(yy, xx) /\ result_array[yy][xx] # 0

(***************************************************************************)
(* C10.  Setting a palette colour at an index outside 0..15 fails with an  *)
(* error surfaced to the caller and leaves the RGB888 and the RGB565       *)
(* arrays unchanged.                                                       *)
(***************************************************************************)
OutOfRangeStore ==
    /\ mutations' = mutations + 1
    /\ last_call'.op = "add_custom_color"
    /\ last_call'.index \notin 0..15

Trunc565(c) == (c[1] \div 8) * 2048 + (c[2] \div 4) * 32 + (c[3] \div 8)

PackedFresh ==
    pc \in {"palette", "ready"} =>
        /\ DOMAIN colors_rgb = 0..15 /\ DOMAIN colors_rgb565 = 0..15
        /\ \A i \in 0..15 : colors_rgb565[i] = Trunc565(colors_rgb[i])

InRangeStore ==
    /\ mutations' = mutations + 1
    /\ last_call'.op = "add_custom_color"
    /\ last_call'.index \in 0..15

OneSlotChanged ==
    InRangeStore =>
        /\ colors_rgb'[last_call'.index] = last_call'.color
        /\ \A j \in 0..15 : j # last_call'.index =>
              colors_rgb'[j] = colors_rgb[j] /\ colors_rgb565'[j] = colors_rgb565[j]

C11_PackedNeverStale == []PackedFresh /\ [][OneSlotChanged]_vars

\* a slot was given a colour whose packed value differs from the preset's,
\* after an earlier mutation of another slot
C11_Witness ==
    /\ last_call.op = "add_custom_color" /\ last_call.index \in 0..15
    /\ mutations = 2
    /\ colors_rgb565[last_call.index] # Trunc565(AsList(palettes(name))[last_call.index])
    /\ \E j \in 0..15 : j # last_call.index /\ colors_rgb[j] # AsList(palettes(name))[j]

(***************************************************************************)
(* C12.  The cached perceptual coordinates follow the palette: in every    *)
(* state in which a search of the perceptual (Lab) metric has run, the     *)
(* cache holds 16 coordinates and coordinate i is the conversion of the    *)
(* current palette colour i.                                               *)
(***************************************************************************)
C12_CacheFollowsPalette ==
    (last_call.op = "find_closest_color" /\ color_space = "lab") =>
        /\ DOMAIN palette_lab = 0..15
        /\ \A i \in 0..15 :
              palette_lab[i] = rgb_to_lab(colors_rgb[i][1], colors_rgb[i][2], colors_rgb[i][3])

(***************************************************************************)
(* C13.  Loading a palette by a name other than classic, gameboy, sepia,   *)
(* neon fails with an error surfaced to the caller and yields no usable    *)
(* palette (no colour list, no RGB565 list, nothing can be called on it);  *)
(* loading any of the four names succeeds with 16 entries in both lists.   *)
(***************************************************************************)
C13_UnknownNameFails ==
    last_call.op = "ColorPalette" =>
        IF last_call.name \in {"classic", "gameboy", "sepia", "neon"}
        THEN /\ raised = None /\ pc = "palette" /\ name = last_call.name
             /\ DOMAIN colors_rgb = 0..15 /\ DOMAIN colors_rgb565 = 0..15
        ELSE /\ raised # None /\ pc = "failed"
             /\ colors_rgb = Absent /\ colors_rgb565 = Absent
             /\ ~ENABLED NextPalette

\* the load of an unregistered name has failed
C13_Witness ==
    /\ last_call.op = "ColorPalette" /\ last_call.name = "amber"
    /\ raised = "ValueError" /\ pc = "failed"

(***************************************************************************)
(* C14.  Constructing or using the quantizer with a distance-metric mode   *)
(* other than lab, rgb, hsv fails with an error: in every state in which   *)
(* a quantizer holds such a mode, an error has been surfaced.              *)
(***************************************************************************)
C14_UnsupportedSpaceFails ==
    (pc = "ready" /\ color_space \notin {"lab", "rgb", "hsv"}) => raised # None

(***************************************************************************)
(* C15.  A quantization run on a pixel buffer whose width or height is     *)
(* zero fails with an error before any output is produced: it does not     *)
(* return an index buffer.                                                 *)
(***************************************************************************)
C15_ZeroDimensionsFail ==
    (last_call.op = "quantize_image" /\ (width = 0 \/ height = 0)) =>
        raised # None /\ pc \notin DonePcs

(***************************************************************************)
(* C16.  In every state after a successful palette load, whatever slot     *)
(* mutations followed (in range or out of range), the palette has exactly  *)
(* 16 RGB888 entries and exactly 16 RGB565 entries.                        *)
(***************************************************************************)
C16_AlwaysSixteen ==
    (raised = None /\ name \in PaletteNames) =>
        /\ Cardinality(DOMAIN colors_rgb) = 16
        /\ Cardinality(DOMAIN colors_rgb565) = 16

\* an out-of-range mutation after an in-range one that changed the palette
C16_Witness ==
    /\ last_call.op = "add_custom_color" /\ last_call.index \notin 0..15
    /\ mutations = 2
    /\ colors_rgb # AsList(palettes(name))
    /\ Cardinality(DOMAIN colors_rgb) = 16

(***************************************************************************)
(* C17.  For r, g, b in 0..255 the palette store's RGB565 value            *)
(* ((r & 0xF8) << 8) | ((g & 0xFC) << 3) | (b >> 3) equals the truncating  *)
(* layout ((r >> 3) << 11) | ((g >> 2) << 5) | (b >> 3), equals            *)
(* M5ImageConverter.rgb888_to_rgb565(r, g, b), and lies in 0..65535.       *)
(***************************************************************************)
Layout565(c) == BitOr(BitOr(Shl(Shr(c[1], 3), 11), Shl(Shr(c[2], 2), 5)), Shr(c[3], 3))

C17_Rgb565Agree ==
    last_call.op = "rgb565 returned" =>
        /\ last_call.palette_store = Layout565(last_call.args)
        /\ last_call.palette_store = Trunc565(last_call.args)
        /\ last_call.palette_store = last_call.converter
        /\ last_call.palette_store \in 0..65535

\* a conversion that dropped low bits of every channel
C17_Witness ==
    /\ last_call.op = "rgb565 returned"
    /\ last_call.args[1] % 8 # 0 /\ last_call.args[2] % 4 # 0 /\ last_call.args[3] % 8 # 0
    /\ last_call.args[2] % 8 >= 4
    /\ last_call.palette_store = last_call.converter

(***************************************************************************)
(* C18.  The hue term dh = min(|h1 - h2|, 1 - |h1 - h2|) of the HSV        *)
(* metric is symmetric in its two hues and lies in [0, 0.5] for hues in    *)
(* [0, 1).                                                                 *)
(***************************************************************************)
C18_HueTermBounded ==
    last_call.op = "dh returned" =>
        /\ last_call.dh = last_call.dh_swapped
        /\ 0 <= last_call.dh /\ 2 * last_call.dh <= HsvScale

\* hues more than half a turn apart on the plain scale, and hues exactly
\* half a turn apart
C18_Witness ==
    /\ last_call.op = "dh returned"
    /\ \/ last_call.h2 - last_call.h1 > HsvScale \div 2 /\ last_call.dh > 0
       \/ last_call.h1 - last_call.h2 = HsvScale \div 2 /\ 2 * last_call.dh = HsvScale

(***************************************************************************)
(* C19.  In height mode the cutter cuts sections from the top in the       *)
(* order the heights are given: for positive heights h1, h2, ... section   *)
(* k starts where section k-1 ended and has height hk, clipped at the      *)
(* image bottom; equal heights given twice give two sections.              *)
(***************************************************************************)
\* the sections of heights cuts[k..] laid from row top of an image of H rows
RECURSIVE InOrderFrom(_, _, _, _)
InOrderFrom(cuts, k, top, H) ==
    IF k > Len(cuts) \/ top >= H THEN <<>>
    ELSE <<<<top, Min2(top + cuts[k], H)>>>>
            \o InOrderFrom(cuts, k + 1, Min2(top + cuts[k], H), H)

\* the rows of the saved sections, in the order saved
SavedRows == [k \in DOMAIN saved_files |-> <<saved_files[k].start_y, saved_files[k].end_y>>]

C19_HeightsInGivenOrder ==
    (pc = "cut done" /\ ~position_mode /\ \A k \in DOMAIN cut_positions : cut_positions[k] > 0)
        => SavedRows = InOrderFrom(cut_positions, 1, 0, image_height)

(***************************************************************************)
(* C20.  In dithered mode the error diffused from a pixel is the clamped   *)
(* pixel value (the value looked up) minus the chosen palette colour, per  *)
(* channel: the right neighbour of an opaque pixel receives 7/16 of that   *)
(* error, the pixel below 5/16.                                            *)
(***************************************************************************)
\* a step of a dithering path that handles the opaque pixel (y, x)
DitherStepAt == pc = "quantizing" /\ dither /\ Opaque(y, x)

\* the neighbours of (y, x) received the shares 7/16 and 5/16 of err
SharesOf(err) ==
    /\ (x + 1 < width /\ Opaque(y, x + 1)) =>
          \A ch \in 1..3 :
             image_array'[y][x + 1][ch] = image_array[y][x + 1][ch] + (err[ch] * 7) \div 16
    /\ (y + 1 < height /\ Opaque(y + 1, x)) =>
          \A ch \in 1..3 :
             image_array'[y + 1][x][ch] = image_array[y + 1][x][ch] + (err[ch] * 5) \div 16

\* the colour chosen for (y, x) by the step, in working-buffer units
ChosenColour == [ch \in 1..3 |-> colors_rgb[result_array'[y][x]][ch] * Scale]

C20_ClampedError ==
    [][DitherStepAt =>
          SharesOf([ch \in 1..3 |-> Lookup(image_array[y][x])[ch] * Scale - ChosenColour[ch]])]_vars

\* C20 as amended: the error diffused is the accumulated working value, not
\* clamped, minus the chosen palette colour; an accumulated value outside
\* [0,255] contributes its whole excess
C20_AccumulatedError ==
    [][DitherStepAt =>
          SharesOf([ch \in 1..3 |-> image_array[y][x][ch] - ChosenColour[ch]])]_vars

\* a dithered run handled an opaque pixel whose accumulated value had left
\* [0,255] and passed its error on to an opaque right neighbour
C20_Witness ==
    /\ pc \in {"quantizing", "quantized"} /\ dither
    /\ \E yy \in Rows(height), xx \in Cols(width) :
          /\ Processed(yy, xx) /\ Opaque(yy, xx)
          /\ xx + 1 < width /\ Opaque(yy, xx + 1) /\ Processed(yy, xx + 1)
          /\ \E ch \in 1..3 : image_array[yy][xx][ch] > 255 * Scale
                                 \/ image_array[yy][xx][ch] < 0

(***************************************************************************)
(* C21.  When an opaque pixel (x, y) is processed in dithered mode its     *)
(* quantization error e is added to exactly these in-bounds cells of the   *)
(* working buffer and to no other cell: (x+1, y) gets 7/16 e, (x-1, y+1)   *)
(* gets 3/16 e, (x, y+1) gets 5/16 e, (x+1, y+1) gets 1/16 e; a target     *)
(* outside the buffer is skipped and its share goes nowhere.               *)
(***************************************************************************)
\* the sixteenths of the error of (y, x) that the Floyd-Steinberg kernel
\* assigns to cell (yy, xx)
KernelWeight(yy, xx) ==
    IF yy = y /\ xx = x + 1 THEN 7
    ELSE IF yy = y + 1 /\ xx = x - 1 THEN 3
    ELSE IF yy = y + 1 /\ xx = x THEN 5
    ELSE IF yy = y + 1 /\ xx = x + 1 THEN 1
    ELSE 0

\* the quantization error of the step at (y, x): accumulated value minus the
\* chosen palette colour
StepError == [ch \in 1..3 |-> image_array[y][x][ch] - ChosenColour[ch]]

\* every cell of the buffer moved by exactly its kernel share of the error
C21_KernelInBounds ==
    [][DitherStepAt =>
          \A yy \in Rows(height), xx \in Cols(width), ch \in 1..3 :
             image_array'[yy][xx][ch] =
                image_array[yy][xx][ch] + (StepError[ch] * KernelWeight(yy, xx)) \div 16]_vars

\* C21 as amended: in the alpha-aware path an in-bounds target whose alpha
\* is below 128 is skipped as well; every other cell moves by its kernel share
C21_KernelInBoundsOpaque ==
    [][DitherStepAt =>
          \A yy \in Rows(height), xx \in Cols(width), ch \in 1..3 :
             image_array'[yy][xx][ch] =
                image_array[yy][xx][ch]
                   + (IF Opaque(yy, xx)
                      THEN (StepError[ch] * KernelWeight(yy, xx)) \div 16 ELSE 0)]_vars

\* a dithered 2x2 run with a transparent pixel finished after error reached
\* some cell: its opaque pixels had targets outside the buffer, a
\* transparent target and an opaque one
C21_Witness ==
    /\ pc = "quantized" /\ dither /\ mode = "RGBA" /\ width = 2 /\ height = 2
    /\ \E yy \in Rows(height), xx \in Cols(width) : ~Opaque(yy, xx)
    /\ image_array # ToFloat(image)

(***************************************************************************)
(* C22.  In the alpha-aware dithering path a pixel with alpha below 128    *)
(* neither receives nor propagates error: its cell of the working buffer   *)
(* equals its input value throughout the run, and the step that processes  *)
(* it changes no cell of the working buffer.                               *)
(***************************************************************************)
\* the run in progress or finished is an alpha-aware dithered one
AlphaDitherRun == pc \in RunPcs /\ mode = "RGBA" /\ dither

C22_TransparentIsolated ==
    /\ [](AlphaDitherRun =>
             \A yy \in Rows(height), xx \in Cols(width) :
                ~Opaque(yy, xx) => image_array[yy][xx] = ToFloat(image)[yy][xx])
    /\ [][(pc = "quantizing" /\ mode = "RGBA" /\ dither /\ ~Opaque(y, x))
             => image_array' = image_array]_vars

\* a finished 2x2 run whose pixel (0, 0) is opaque and passed error to the
\* pixel below it, while its right neighbour (0, 1) is transparent
C22_Witness ==
    /\ AlphaDitherRun /\ pc = "quantized" /\ width = 2 /\ height = 2
    /\ Opaque(0, 0) /\ ~Opaque(0, 1) /\ Opaque(1, 0)
    /\ image_array[1][0] # ToFloat(image)[1][0]

(***************************************************************************)
(* C23.  A dithered run is a single raster pass: the pixels are processed  *)
(* once each in row-major order (row 0 left to right, then row 1, ...);    *)
(* error is only added to pixels not yet processed, and once the index of  *)
(* a pixel has been written neither that index nor the accumulated value   *)
(* of that pixel changes for the rest of the run.                          *)
(***************************************************************************)
\* a step of a dithering path
DitherStep == pc = "quantizing" /\ dither

\* the scan moves to the row-major successor of (y, x), or the run returns
\* after the last pixel
RasterSuccessor ==
    \/ pc' = "quantizing" /\ x' \in Cols(width) /\ y' \in Rows(height)
          /\ y' * width + x' = y * width + x + 1
    \/ pc' = "quantized" /\ y * width + x = width * height - 1

\* the pixels handled up to and including the step keep index and value;
\* the step writes the index of (y, x) only
ProcessedFrozen ==
    \A yy \in Rows(height), xx \in Cols(width) :
       /\ (Processed(yy, xx) \/ <<yy, xx>> = <<y, x>>) =>
             image_array'[yy][xx] = image_array[yy][xx]
       /\ <<yy, xx>> # <<y, x>> => result_array'[yy][xx] = result_array[yy][xx]

C23_SingleRasterPass ==
    /\ [](DitherStep =>
             \A yy \in Rows(height), xx \in Cols(width) :
                ~Processed(yy, xx) => result_array[yy][xx] = 0)
    /\ [][DitherStep => (RasterSuccessor /\ ProcessedFrozen)]_vars
    /\ [][(pc \in DonePcs /\ dither) =>
             (image_array' = image_array /\ result_array' = result_array)]_vars

\* a finished dithered 2x2 run without alpha in which pixel (1, 0), the last
\* but one of the pass, had received error before its turn
C23_Witness ==
    /\ pc = "quantized" /\ dither /\ mode = "RGB" /\ width = 2 /\ height = 2
    /\ image_array[1][0] # ToFloat(image)[1][0]
    /\ image_array[0][0] = ToFloat(image)[0][0]

(***************************************************************************)
(* C24.  Dithering conserves error on a fully opaque image: for every      *)
(* processed pixel the amounts added to its neighbours sum, per channel,   *)
(* to the whole quantization error of that pixel (7+3+5+1 sixteenths), so  *)
(* none of the error is lost.                                              *)
(***************************************************************************)
\* what the step added to the working buffer in channel ch, summed over the
\* cells k, k+1, ... in row-major numbering
RECURSIVE DiffusedFrom(_, _)
DiffusedFrom(k, ch) ==
    IF k >= width * height THEN 0
    ELSE image_array'[k \div width][k % width][ch]
            - image_array[k \div width][k % width][ch] + DiffusedFrom(k + 1, ch)

\* the sixteenths of the kernel whose target lies inside the buffer
RECURSIVE WeightInBoundsFrom(_)
WeightInBoundsFrom(k) ==
    IF k >= width * height THEN 0
    ELSE KernelWeight(k \div width, k % width) + WeightInBoundsFrom(k + 1)

\* all four targets of (y, x) lie inside the buffer
InteriorPixel == 0 < x /\ x < width - 1 /\ y < height - 1

C24_ErrorConserved ==
    [][DitherStepAt => \A ch \in 1..3 : DiffusedFrom(0, ch) = StepError[ch]]_vars

\* C24 as amended: a pixel passes on the shares of its in-bounds targets
\* only; the whole error when all four targets are inside the buffer, less
\* on the left and right columns and on the bottom row, nothing at the last
\* pixel
C24_InBoundsSharesOnly ==
    [][DitherStepAt =>
          /\ \A ch \in 1..3 :
                16 * DiffusedFrom(0, ch) = StepError[ch] * WeightInBoundsFrom(0)
          /\ WeightInBoundsFrom(0) = (IF x < width - 1 THEN 7 ELSE 0)
                + (IF y < height - 1
                   THEN (IF x > 0 THEN 3 ELSE 0) + 5 + (IF x < width - 1 THEN 1 ELSE 0)
                   ELSE 0)
          /\ InteriorPixel => \A ch \in 1..3 : DiffusedFrom(0, ch) = StepError[ch]]_vars

\* the interior pixel (0, 1) of a 3x2 image has just been processed and its
\* error has reached (1, 2), which no earlier pixel diffuses to; the first
\* pixel had lost the share of its missing lower-left target
C24_Witness ==
    /\ pc = "quantizing" /\ dither /\ width = 3 /\ height = 2 /\ y = 0 /\ x = 2
    /\ image_array[1][2] # ToFloat(image)[1][2]
    /\ image_array[0][1] # ToFloat(image)[0][1]

(***************************************************************************)
(* C25.  In non-dithered mode no state is carried between pixels: the      *)
(* index written for a pixel is determined by the colour and the alpha of  *)
(* that pixel alone (with the palette and the metric), whatever the other  *)
(* pixels of the buffer are, and the run does not modify the input pixel   *)
(* buffer.                                                                 *)
(***************************************************************************)
\* the index of pixel (yy, xx) as a function of its own input colour and
\* alpha
OwnIndex(yy, xx) ==
    IF mode = "RGBA" /\ alpha_channel[yy][xx] < 128 THEN transparent_index
    ELSE find_closest_color(image[yy][xx][1], image[yy][xx][2], image[yy][xx][3])

C25_NoCarriedState ==
    /\ []((pc \in RunPcs /\ ~dither) => image_array = image)
    /\ [][(pc = "quantizing" /\ ~dither) =>
             /\ result_array'[y][x] = OwnIndex(y, x)
             /\ image_array' = image_array /\ image' = image
             /\ alpha_channel' = alpha_channel
             /\ \A yy \in Rows(height), xx \in Cols(width) :
                   <<yy, xx>> # <<y, x>> => result_array'[yy][xx] = result_array[yy][xx]]_vars

\* a finished non-dithered run in which two pixels of one colour sit in a
\* buffer with a pixel of another colour, which got another index
C25_Witness ==
    /\ pc = "quantized" /\ ~dither /\ width * height >= 3
    /\ \E y1, y2, y3 \in Rows(height), x1, x2, x3 \in Cols(width) :
          /\ <<y1, x1>> # <<y2, x2>>
          /\ image[y1][x1] = image[y2][x2] /\ Opaque(y1, x1) /\ Opaque(y2, x2)
          /\ result_array[y1][x1] = result_array[y2][x2]
          /\ image[y3][x3] # image[y1][x1]
          /\ result_array[y3][x3] # result_array[y1][x1]

(***************************************************************************)
(* C26.  The alpha-aware and the non-alpha paths are one algorithm under   *)
(* one guard: for every image whose pixels all have alpha 128 or more the  *)
(* alpha-aware path produces exactly the index buffer the non-alpha path   *)
(* produces for the same RGB data, with dithering on and with dithering    *)
(* off.                                                                    *)
(***************************************************************************)
\* every pixel of the RGBA image of the run has alpha >= 128
AllOpaque ==
    mode = "RGBA" /\ \A yy \in Rows(height), xx \in Cols(width) : alpha_channel[yy][xx] >= 128

\* the loop of _simple_quantize (d = FALSE) or _floyd_steinberg_dither
\* (d = TRUE) from pixel number k on, on working buffer arr and index
\* buffer res
RECURSIVE NonAlphaFrom(_, _, _, _)
NonAlphaFrom(d, arr, res, k) ==
    IF k >= width * height THEN res
    ELSE LET yy == k \div width
             xx == k % width
             rgb == IF d THEN Lookup(arr[yy][xx]) ELSE arr[yy][xx]
             closest_idx == find_closest_color(rgb[1], rgb[2], rgb[3])
         IN  NonAlphaFrom(d,
                 IF d THEN Diffuse(arr, width, height, yy, xx,
                                   QuantError(arr[yy][xx], ListGet(colors_rgb, closest_idx)))
                 ELSE arr,
                 [res EXCEPT ![yy][xx] = closest_idx], k + 1)

\* the index buffer the non-alpha path returns for the RGB data of the run
NonAlphaResult ==
    NonAlphaFrom(dither, IF dither THEN ToFloat(image) ELSE image,
                 [r \in Rows(height) |-> [c \in Cols(width) |-> 0]], 0)

\* the step the non-alpha path takes from the present state
NonAlphaStep ==
    IF dither THEN DitherPixel(FALSE)
    ELSE /\ result_array' =
               [result_array EXCEPT ![y][x] =
                   find_closest_color(image_array[y][x][1], image_array[y][x][2],
                                      image_array[y][x][3])]
         /\ Advance
         /\ UNCHANGED <<raised, image_array>>

\* on a fully opaque image every step of an alpha-aware path is the step of
\* the non-alpha path, and the finished index buffer of either path is the
\* one the non-alpha loops compute
C26_PathsAgree ==
    /\ [][(pc = "quantizing" /\ AllOpaque) => NonAlphaStep]_vars
    /\ []((pc = "quantized" /\ width > 0 /\ height > 0 /\ (mode = "RGB" \/ AllOpaque))
             => result_array = NonAlphaResult)

\* a finished alpha-aware dithered run on a fully opaque 2x2 image in which
\* error reached the last pixel; a finished alpha-aware plain run likewise
C26_Witness ==
    /\ pc = "quantized" /\ AllOpaque /\ width = 2 /\ height = 2
    /\ \/ dither /\ image_array[1][1] # ToFloat(image)[1][1]
       \/ ~dither /\ result_array[0][0] # result_array[1][1]

(***************************************************************************)
(* C27.  Every quantization run on a buffer of positive width and height   *)
(* with a loaded palette and a metric terminates after visiting all        *)
(* width * height pixels and returns an index buffer of the dimensions of  *)
(* the input in which every cell was assigned a value in 0..15; no run     *)
(* returns a partially filled index buffer.                                *)
(***************************************************************************)
\* the index buffer has the dimensions of the input and values in 0..15
FullIndexBuffer ==
    /\ DOMAIN result_array = Rows(height) /\ DOMAIN image = Rows(height)
    /\ \A yy \in Rows(height) :
          /\ DOMAIN result_array[yy] = Cols(width) /\ DOMAIN image[yy] = Cols(width)
          /\ \A xx \in Cols(width) : result_array[yy][xx] \in 0..15

C27_RunCompletes ==
    /\ (pc = "quantizing") ~> (pc = "quantized")
    /\ [](pc # "failed")
    /\ []((pc \in DonePcs /\ width > 0 /\ height > 0) => FullIndexBuffer)
    /\ [][pc = "quantizing" =>
             /\ result_array'[y][x] \in 0..15
             /\ pc' # "quantizing" =>
                   (pc' = "quantized" /\ y = height - 1 /\ x = width - 1)]_vars

\* a run over four pixels in two rows returned, with several indices in use
C27_Witness ==
    /\ pc = "quantized" /\ width = 2 /\ height = 2 /\ y = 1 /\ x = 1
    /\ \E yy \in Rows(height), xx \in Cols(width) : result_array[yy][xx] # result_array[0][0]

(***************************************************************************)
(* C28.  In both modes of the image cutter, for any list of cut values and *)
(* any image height H >= 1, the saved sections are non-empty, lie within   *)
(* rows 0..H, do not overlap and are produced in increasing order of start *)
(* row; in height mode they are also contiguous from row 0 (each section   *)
(* starts where the previous saved one ended); non-positive cut values     *)
(* produce no section.                                                     *)
(***************************************************************************)
C28_SectionsWellFormed ==
    pc = "cut done" =>
       /\ \A k \in DOMAIN saved_files :
             /\ saved_files[k].start_y < saved_files[k].end_y
             /\ 0 <= saved_files[k].start_y /\ saved_files[k].end_y <= image_height
             /\ unique_cuts[saved_files[k].index + 1] > 0
             /\ k > 1 => saved_files[k - 1].end_y <= saved_files[k].start_y
       /\ ~position_mode =>
             \A k \in DOMAIN saved_files :
                saved_files[k].start_y = IF k = 1 THEN 0 ELSE saved_files[k - 1].end_y

(***************************************************************************)
(* C29.  When several images are converted into one header, the variable   *)
(* names given to the processed images are pairwise distinct after any     *)
(* sequence of input files, also when sanitized names coincide with each   *)
(* other or with an already suffixed name (name, name_1, name_2, ...); so  *)
(* the upper-case WIDTH and HEIGHT macro names are distinct too.           *)
(***************************************************************************)
\* the macro names of the header so far
MacroNames ==
    {width_const(image_data_list[k].var_name) : k \in DOMAIN image_data_list}
       \cup {height_const(image_data_list[k].var_name) : k \in DOMAIN image_data_list}

C29_NamesDistinct ==
    /\ \A i, j \in DOMAIN image_data_list :
          i # j => image_data_list[i].var_name # image_data_list[j].var_name
    /\ Cardinality(MacroNames) = 2 * Len(image_data_list)

\* a file whose sanitized name was already taken by a suffixed name: the
\* second a got a_1, so the file a_1 got a_1_1
C29_Witness ==
    \E i, j \in DOMAIN image_data_list :
       /\ i < j
       /\ image_data_list[i].var_name # sanitize_variable_name(image_data_list[i].original_file)
       /\ image_data_list[i].var_name = sanitize_variable_name(image_data_list[j].original_file)
       /\ image_data_list[j].var_name = <<"a", "_", "1", "_", "1">>

====
